---- MODULE Spec2Model ----
(***************************************************************************)
(* Model of the image codec adapter of three-d-asset: Texture2D            *)
(* deserialize / serialize, TextureCube::from_bytes and the texture        *)
(* defaults.  The external image crate is modelled by what the adapter     *)
(* observes of it: a buffer either is not recognised, is recognised but    *)
(* fails to decode, or decodes to a DynamicImage of some colour type with  *)
(* a width, a height and a flat byte buffer.                               *)
(***************************************************************************)
EXTENDS Integers, Sequences, FiniteSets, TLC

VARIABLES hdr, pc, op, args, origin, result

vars == <<hdr, pc, op, args, origin, result>>

\* Largest image width and height of the enumerated inputs.
MaxDim == 2

(***************************************************************************)
(* Result<T>, and the panics of unimplemented!() / unreachable!().         *)
(***************************************************************************)
Ok(v) == [tag |-> "Ok", value |-> v]

Err(cause) == [tag |-> "Err", kind |-> "DecodeError", cause |-> cause]

Panic(msg) == [tag |-> "Panic", msg |-> msg]

NoResult == [tag |-> "None"]

(***************************************************************************)
(* texture.rs                                                              *)
(***************************************************************************)
Interpolation == {"Nearest", "Linear"}

Wrapping == {"Repeat", "MirroredRepeat", "ClampToEdge"}

TextureDataTags ==
    {"RU8", "RgU8", "RgbU8", "RgbaU8",
     "RF16", "RgF16", "RgbF16", "RgbaF16",
     "RF32", "RgF32", "RgbF32", "RgbaF32"}

\* Number of channels of a TextureData variant.
Channels(tag) ==
    CASE tag \in {"RU8", "RF16", "RF32"} -> 1
      [] tag \in {"RgU8", "RgF16", "RgF32"} -> 2
      [] tag \in {"RgbU8", "RgbF16", "RgbF32"} -> 3
      [] OTHER -> 4

TextureData(tag, values) == [tag |-> tag, values |-> values]

\* Option<Interpolation>
Some(x) == <<x>>

None == <<>>

\* Texture2D_default with an opaque texel.
Texture2D_default_opaque ==
    [data |-> TextureData("RgbaU8", << <<0, 0, 0, 255>> >>),
     width |-> 1,
     height |-> 1,
     min_filter |-> "Linear",
     mag_filter |-> "Linear",
     mip_map_filter |-> Some("Linear"),
     wrap_s |-> "Repeat",
     wrap_t |-> "Repeat"]

Texture2D_default ==
    [data |-> TextureData("RgbaU8", << <<0, 0, 0, 0>> >>),
     width |-> 1,
     height |-> 1,
     min_filter |-> "Linear",
     mag_filter |-> "Linear",
     mip_map_filter |-> Some("Linear"),
     wrap_s |-> "Repeat",
     wrap_t |-> "Repeat"]

\* Texture3D_default with an opaque texel.
Texture3D_default_opaque ==
    [data |-> TextureData("RgbaU8", << <<0, 0, 0, 255>> >>),
     width |-> 1,
     height |-> 1,
     depth |-> 1,
     min_filter |-> "Linear",
     mag_filter |-> "Linear",
     mip_map_filter |-> Some("Linear"),
     wrap_s |-> "Repeat",
     wrap_t |-> "Repeat",
     wrap_r |-> "Repeat"]

Texture3D_default ==
    [data |-> TextureData("RgbaU8", << <<0, 0, 0, 0>> >>),
     width |-> 1,
     height |-> 1,
     depth |-> 1,
     min_filter |-> "Linear",
     mag_filter |-> "Linear",
     mip_map_filter |-> Some("Linear"),
     wrap_s |-> "Repeat",
     wrap_t |-> "Repeat",
     wrap_r |-> "Repeat"]

TextureCubeData(tag, right, left, top, bottom, front, back) ==
    [tag |-> tag, faces |-> <<right, left, top, bottom, front, back>>]

TextureCube_default ==
    [data |-> TextureCubeData("RgbaU8",
                  << <<255, 0, 0, 255>> >>, << <<255, 0, 0, 255>> >>,
                  << <<255, 0, 0, 255>> >>, << <<255, 0, 0, 255>> >>,
                  << <<255, 0, 0, 255>> >>, << <<255, 0, 0, 255>> >>),
     width |-> 1,
     height |-> 1,
     min_filter |-> "Linear",
     mag_filter |-> "Linear",
     mip_map_filter |-> Some("Linear"),
     wrap_s |-> "Repeat",
     wrap_t |-> "Repeat",
     wrap_r |-> "Repeat"]

(***************************************************************************)
(* The image crate as the adapter sees it.  A buffer is described by the   *)
(* container format its leading bytes announce ("None" when no format is   *)
(* recognised, as for an empty buffer or random bytes), by whether its     *)
(* body is damaged, and by the image it holds.                             *)
(***************************************************************************)
Color8 == {"Luma8", "LumaA8", "Rgb8", "Rgba8"}

Color16 == {"Luma16", "Rgba16"}

BytesPerPixel(color) ==
    CASE color = "Luma8" -> 1
      [] color = "LumaA8" -> 2
      [] color = "Rgb8" -> 3
      [] color = "Rgba8" -> 4
      [] color = "Luma16" -> 2
      [] color = "Rgba16" -> 8
      [] color = "Rgbe8" -> 4
      [] OTHER -> 0

Buffer(container, corrupt, color, width, height, bytes) ==
    [container |-> container, corrupt |-> corrupt, color |-> color,
     width |-> width, height |-> height, bytes |-> bytes]

DynamicImage(color, width, height, bytes) ==
    [color |-> color, width |-> width, height |-> height, bytes |-> bytes]

\* Reader::with_guessed_format followed by Reader::format.
format(buf) == buf.container

\* Reader::decode / image::load_from_memory.  hdrCodec: the radiance codec
\* of the image crate is compiled in.
decode(buf, hdrCodec) ==
    IF format(buf) = "None" \/ (format(buf) = "Hdr" /\ ~hdrCodec)
    THEN Err("Unsupported")
    ELSE IF buf.corrupt
    THEN Err("Decoding")
    ELSE Ok(DynamicImage(IF buf.color = "Rgbe8" THEN "Rgb32F" ELSE buf.color,
                         buf.width, buf.height, buf.bytes))

RECURSIVE Pow2(_)
Pow2(n) == IF n <= 0 THEN 1 ELSE 2 * Pow2(n - 1)

\* Rgbe8::to_hdr for exponents that give whole numbers (e = 0 or e >= 136).
to_hdr(rgbe) ==
    IF rgbe[4] = 0
    THEN <<0, 0, 0>>
    ELSE <<rgbe[1] * Pow2(rgbe[4] - 136), rgbe[2] * Pow2(rgbe[4] - 136),
           rgbe[3] * Pow2(rgbe[4] - 136)>>

\* HdrDecoder::new, metadata and read_image_native: the Rgbe8 texels.
HdrDecoder(buf) ==
    IF format(buf) # "Hdr" \/ buf.corrupt
    THEN Err("Decoding")
    ELSE Ok([width |-> buf.width, height |-> buf.height,
             img |-> [i \in 1..(Len(buf.bytes) \div 4) |->
                         [k \in 1..4 |-> buf.bytes[(i - 1) * 4 + k]]]])

(***************************************************************************)
(* io/parser/img.rs: Texture2D::deserialize                                *)
(***************************************************************************)
\* Regroup reading bytes[i + k] where the code reads bytes[i * n + k].
Regroup_stride(bytes, n) ==
    [i \in 1..(Len(bytes) \div n) |-> [k \in 1..n |-> bytes[(i - 1) + k]]]

\* for i in 0..bytes.len() / n { data.push([bytes[i * n], .., bytes[i * n + n - 1]]) }
Regroup(bytes, n) ==
    [i \in 1..(Len(bytes) \div n) |-> [k \in 1..n |-> bytes[(i - 1) * n + k]]]

\* hdr_image_from_bytes with the metadata's width and height exchanged.
hdr_image_from_bytes_dims(buf) ==
    LET d == HdrDecoder(buf)
    IN  IF d.tag # "Ok"
        THEN d
        ELSE Ok([Texture2D_default EXCEPT
                    !.data = TextureData("RgbF32",
                                 [i \in 1..Len(d.value.img) |-> to_hdr(d.value.img[i])]),
                    !.width = d.value.height,
                    !.height = d.value.width])

\* hdr_image_from_bytes writing [values[0], values[1], values[1]].
hdr_image_from_bytes_chan(buf) ==
    LET d == HdrDecoder(buf)
    IN  IF d.tag # "Ok"
        THEN d
        ELSE Ok([Texture2D_default EXCEPT
                    !.data = TextureData("RgbF32",
                                 [i \in 1..Len(d.value.img) |->
                                     <<to_hdr(d.value.img[i])[1], to_hdr(d.value.img[i])[2],
                                       to_hdr(d.value.img[i])[2]>>]),
                    !.width = d.value.width,
                    !.height = d.value.height])

hdr_image_from_bytes(buf) ==
    LET d == HdrDecoder(buf)
    IN  IF d.tag # "Ok"
        THEN d
        ELSE Ok([Texture2D_default EXCEPT
                    !.data = TextureData("RgbF32",
                                 [i \in 1..Len(d.value.img) |-> to_hdr(d.value.img[i])]),
                    !.width = d.value.width,
                    !.height = d.value.height])

\* image_from_bytes answering a decode error with the default texture.
image_from_bytes_swallow(buf, hdrCodec) ==
    LET r == decode(buf, hdrCodec)
    IN  IF r.tag # "Ok"
        THEN Ok(Texture2D_default)
        ELSE LET img == r.value
             IN  IF img.color \notin Color8
                 THEN Panic("not implemented")
                 ELSE Ok([Texture2D_default EXCEPT
                             !.data =
                                 CASE img.color = "Luma8" ->
                                          TextureData("RU8", img.bytes)
                                   [] img.color = "LumaA8" ->
                                          TextureData("RgU8", Regroup(img.bytes, 2))
                                   [] img.color = "Rgb8" ->
                                          TextureData("RgbU8", Regroup(img.bytes, 3))
                                   [] img.color = "Rgba8" ->
                                          TextureData("RgbaU8", Regroup(img.bytes, 4)),
                             !.width = img.width,
                             !.height = img.height])

image_from_bytes(buf, hdrCodec) ==
    LET r == decode(buf, hdrCodec)
    IN  IF r.tag # "Ok"
        THEN r
        ELSE LET img == r.value
             IN  IF img.color \notin Color8
                 THEN Panic("not implemented")
                 ELSE Ok([Texture2D_default EXCEPT
                             !.data =
                                 CASE img.color = "Luma8" ->
                                          TextureData("RU8", img.bytes)
                                   [] img.color = "LumaA8" ->
                                          TextureData("RgU8", Regroup(img.bytes, 2))
                                   [] img.color = "Rgb8" ->
                                          TextureData("RgbU8", Regroup(img.bytes, 3))
                                   [] img.color = "Rgba8" ->
                                          TextureData("RgbaU8", Regroup(img.bytes, 4)),
                             !.width = img.width,
                             !.height = img.height])

deserialize(buf, hdrFeature) ==
    IF hdrFeature /\ format(buf) = "Hdr"
    THEN hdr_image_from_bytes(buf)
    ELSE image_from_bytes(buf, hdrFeature)

(***************************************************************************)
(* io/parser/img.rs: Texture2D::serialize                                  *)
(***************************************************************************)
\* DynamicImage::new_rgba8(width, height): an image of zero bytes.
new_rgba8(width, height) ==
    DynamicImage("Rgba8", width, height, [j \in 1..(width * height * 4) |-> 0])

\* DynamicImage::write_to(.., ImageOutputFormat::Png): a lossless container.
write_to_png(img) ==
    Buffer("Png", FALSE, img.color, img.width, img.height, img.bytes)

serialize(self) ==
    IF self.data.tag = "RgbaU8"
    THEN Ok(write_to_png(new_rgba8(self.width, self.height)))
    ELSE Panic("not implemented")

(***************************************************************************)
(* io/parser/img.rs: TextureCube::from_bytes                               *)
(***************************************************************************)
U8Tags == {"RU8", "RgU8", "RgbU8", "RgbaU8"}

\* cube_data with the top and bottom faces exchanged.
cube_data_swapped(t) ==
    IF t[1].data.tag \notin U8Tags
    THEN Panic("not implemented")
    ELSE IF \E i \in 2..6 : t[i].data.tag # t[1].data.tag
    THEN Panic("unreachable")
    ELSE Ok([tag |-> t[1].data.tag,
             faces |-> <<t[1].data.values, t[2].data.values, t[4].data.values,
                         t[3].data.values, t[5].data.values, t[6].data.values>>])

\* The match on right.data; t holds the six decoded textures in the order
\* right, left, top, bottom, front, back.
cube_data(t) ==
    LET right == t[1]
        left == t[2]
        top == t[3]
        bottom == t[4]
        front == t[5]
        back == t[6]
    IN  IF right.data.tag \notin U8Tags
        THEN Panic("not implemented")
        ELSE IF \E i \in 2..6 : t[i].data.tag # right.data.tag
        THEN Panic("unreachable")
        ELSE Ok(TextureCubeData(right.data.tag, right.data.values, left.data.values,
                                top.data.values, bottom.data.values,
                                front.data.values, back.data.values))

\* cube_new taking the size from the left face.
cube_new_left(data, t) ==
    [data |-> data,
     width |-> t[2].width,
     height |-> t[2].height,
     min_filter |-> t[1].min_filter,
     mag_filter |-> t[1].mag_filter,
     mip_map_filter |-> t[1].mip_map_filter,
     wrap_s |-> t[1].wrap_s,
     wrap_t |-> t[1].wrap_t,
     wrap_r |-> t[1].wrap_s]

\* The struct expression that ends from_bytes.
cube_new(data, t) ==
    LET right == t[1]
    IN  [TextureCube_default EXCEPT
            !.data = data,
            !.width = right.width,
            !.height = right.height,
            !.min_filter = right.min_filter,
            !.mag_filter = right.mag_filter,
            !.mip_map_filter = right.mip_map_filter,
            !.wrap_s = right.wrap_s,
            !.wrap_t = right.wrap_t,
            !.wrap_r = right.wrap_s]

\* The first face, in the order of the six `?` expressions, whose decode
\* does not return Ok; 0 when all six decode.
first_failure(d) ==
    IF \A i \in 1..6 : d[i].tag = "Ok"
    THEN 0
    ELSE CHOOSE i \in 1..6 :
             /\ d[i].tag # "Ok"
             /\ \A j \in 1..(i - 1) : d[j].tag = "Ok"

from_bytes(bytes, hdrFeature) ==
    LET d == [i \in 1..6 |-> deserialize(bytes[i], hdrFeature)]
        f == first_failure(d)
    IN  IF f # 0
        THEN d[f]
        ELSE LET t == [i \in 1..6 |-> d[i].value]
                 data == cube_data(t)
             IN  IF data.tag # "Ok"
                 THEN data
                 ELSE Ok(cube_new(data.value, t))

(***************************************************************************)
(* The inputs of the calls.                                                *)
(***************************************************************************)
Patterns == {"ramp", "red", "zero"}

\* Byte j (from 0) of an image body: 10, 20, 30, ..; opaque red; or zeros.
SourceByte(pat, j) ==
    CASE pat = "ramp" -> (10 * (j + 1)) % 256
      [] pat = "red" -> <<255, 0, 0, 255>>[(j % 4) + 1]
      [] OTHER -> 0

\* Byte j (from 0) of a radiance body: every fourth byte is the exponent.
HdrByte(pat, j) ==
    IF j % 4 = 3
    THEN IF pat = "zero" THEN 0 ELSE 136 + ((j \div 4) % 2)
    ELSE SourceByte(pat, j)

ImageBuffer(container, corrupt, color, width, height, pat) ==
    Buffer(container, corrupt, color, width, height,
           [j \in 1..(width * height * BytesPerPixel(color)) |->
               IF color = "Rgbe8" THEN HdrByte(pat, j - 1) ELSE SourceByte(pat, j - 1)])

\* A zero-length buffer, and bytes that are no image.
EmptyBuffer == Buffer("None", FALSE, "None", 0, 0, <<>>)

RandomBuffer == Buffer("None", FALSE, "None", 0, 0, <<7, 77, 177>>)

Dims == 1..MaxDim

Buffers ==
    {EmptyBuffer, RandomBuffer}
    \cup {ImageBuffer("Png", c, color, w, h, pat) :
            c \in BOOLEAN, color \in Color8 \cup Color16, w \in Dims, h \in Dims,
            pat \in Patterns}
    \cup {ImageBuffer("Hdr", c, "Rgbe8", w, h, pat) :
            c \in BOOLEAN, w \in Dims, h \in Dims, pat \in Patterns}

\* Texel i (from 1) of a texture of the given variant.
Texel(tag, pat, i) ==
    IF Channels(tag) = 1
    THEN SourceByte(pat, i - 1)
    ELSE [k \in 1..Channels(tag) |-> SourceByte(pat, (i - 1) * Channels(tag) + k - 1)]

Texture(tag, width, height, pat, filter) ==
    [Texture2D_default EXCEPT
        !.data = TextureData(tag, [i \in 1..(width * height) |-> Texel(tag, pat, i)]),
        !.width = width,
        !.height = height,
        !.min_filter = filter]

Textures ==
    {Texture(tag, w, h, pat, f) :
        tag \in TextureDataTags, w \in Dims, h \in Dims, pat \in Patterns,
        f \in Interpolation}

\* The faces a cube is assembled from: two images of one 8-bit colour type
\* with different sizes, a face of another kind, and an empty buffer.
OddFaces ==
    {ImageBuffer("Png", FALSE, "Rgb8", 1, 1, "ramp"),
     ImageBuffer("Png", FALSE, "Luma16", 1, 1, "ramp"),
     ImageBuffer("Png", TRUE, "Rgba8", 1, 1, "red"),
     ImageBuffer("Hdr", FALSE, "Rgbe8", 1, 1, "red")}

CubeFacePools ==
    {{ImageBuffer("Png", FALSE, color, 1, 1, "red"),
      ImageBuffer("Png", FALSE, color, MaxDim, 1, "ramp"),
      odd, EmptyBuffer} : color \in Color8, odd \in OddFaces}

(***************************************************************************)
(* The calls.  A caller is idle, or holds the result of its last call, or  *)
(* has panicked.                                                           *)
(***************************************************************************)
After(r) == IF r.tag = "Panic" THEN "panicked" ELSE "done"

Init ==
    /\ hdr \in BOOLEAN
    /\ pc = "idle"
    /\ op = "none"
    /\ args = <<>>
    /\ origin = <<>>
    /\ result = NoResult

Deserialize ==
    /\ pc = "idle"
    /\ \E buf \in Buffers :
        /\ op' = "deserialize"
        /\ args' = <<buf>>
        /\ origin' = <<>>
        /\ result' = deserialize(buf, hdr)
        /\ pc' = After(result')
    /\ UNCHANGED hdr

\* parser/img.rs: hdr_image_from_bytes called on its own.
HdrImageFromBytes ==
    /\ pc = "idle"
    /\ \E buf \in Buffers :
        /\ op' = "hdr_image_from_bytes"
        /\ args' = <<buf>>
        /\ origin' = <<>>
        /\ result' = hdr_image_from_bytes(buf)
        /\ pc' = After(result')
    /\ UNCHANGED hdr

Serialize ==
    /\ pc = "idle"
    /\ \E tex \in Textures :
        /\ op' = "serialize"
        /\ args' = <<tex>>
        /\ origin' = <<>>
        /\ result' = serialize(tex)
        /\ pc' = After(result')
    /\ UNCHANGED hdr

\* The bytes a serialize call returned are handed to deserialize.
DeserializeSerialized ==
    /\ pc = "done"
    /\ op = "serialize"
    /\ result.tag = "Ok"
    /\ op' = "deserialize"
    /\ args' = <<result.value>>
    /\ origin' = args
    /\ result' = deserialize(result.value, hdr)
    /\ pc' = After(result')
    /\ UNCHANGED hdr

FromBytes ==
    /\ pc = "idle"
    /\ \E pool \in CubeFacePools :
        \E bytes \in [1..6 -> pool] :
            /\ op' = "from_bytes"
            /\ args' = bytes
            /\ origin' = <<>>
            /\ result' = from_bytes(bytes, hdr)
            /\ pc' = After(result')
    /\ UNCHANGED hdr

Default ==
    /\ pc = "idle"
    /\ op' = "default"
    /\ args' = <<>>
    /\ origin' = <<>>
    /\ result' = Ok(Texture2D_default)
    /\ pc' = "done"
    /\ UNCHANGED hdr

Default3D ==
    /\ pc = "idle"
    /\ op' = "default3d"
    /\ args' = <<>>
    /\ origin' = <<>>
    /\ result' = Ok(Texture3D_default)
    /\ pc' = "done"
    /\ UNCHANGED hdr

\* The caller drops the result and is ready for its next call.
Return ==
    /\ pc = "done"
    /\ pc' = "idle"
    /\ op' = "none"
    /\ args' = <<>>
    /\ origin' = <<>>
    /\ result' = NoResult
    /\ UNCHANGED hdr

Next ==
    \/ Deserialize
    \/ HdrImageFromBytes
    \/ Serialize
    \/ DeserializeSerialized
    \/ FromBytes
    \/ Default
    \/ Default3D
    \/ Return

Spec == Init /\ [][Next]_vars

(***************************************************************************)
(* Properties                                                              *)
(***************************************************************************)
\* The 8-bit variant of n channels.
U8Variant(n) ==
    CASE n = 1 -> "RU8"
      [] n = 2 -> "RgU8"
      [] n = 3 -> "RgbU8"
      [] OTHER -> "RgbaU8"

\* The bytes of element i of an 8-bit payload, in channel order.
ElementBytes(data, i) ==
    IF data.tag = "RU8" THEN <<data.values[i]>> ELSE data.values[i]

\* C1: decoding the bytes that serialize returned for a 4-channel 8-bit
\* texture of width*height texels gives back the same width, height and
\* channel tuples.
C1_RoundTrip ==
    (op = "deserialize" /\ Len(origin) = 1
        /\ origin[1].data.tag = "RgbaU8"
        /\ Len(origin[1].data.values) = origin[1].width * origin[1].height)
    => /\ result.tag = "Ok"
       /\ result.value.width = origin[1].width
       /\ result.value.height = origin[1].height
       /\ result.value.data = origin[1].data

\* C2: an image that decodes to n 8-bit channels (n in 1..4) of m*k pixels
\* becomes the n-channel 8-bit variant with m*k elements, element i holding
\* the source bytes n*i .. n*i+n-1 in order.
C2_Deinterleave ==
    LET buf == args[1]
    IN  (op = "deserialize" /\ format(buf) = "Png" /\ ~buf.corrupt
            /\ buf.color \in Color8)
        => LET n == BytesPerPixel(buf.color)
           IN  /\ result.tag = "Ok"
               /\ result.value.data.tag = U8Variant(n)
               /\ Len(result.value.data.values) = buf.width * buf.height
               /\ result.value.width = buf.width
               /\ result.value.height = buf.height
               /\ \A i \in 1..(buf.width * buf.height) :
                      ElementBytes(result.value.data, i)
                          = [k \in 1..n |-> buf.bytes[n * (i - 1) + k]]

C2_Witness ==
    /\ op = "deserialize"
    /\ result.tag = "Ok"
    /\ result.value.width = 2
    /\ result.value.height = 1
    /\ args[1].bytes = <<10, 20, 30, 40, 50, 60, 70, 80>>
    /\ result.value.data
           = TextureData("RgbaU8", << <<10, 20, 30, 40>>, <<50, 60, 70, 80>> >>)

\* The six buffers of the from_bytes call at hand all decode.
AllFacesDecode ==
    /\ op = "from_bytes"
    /\ \A i \in 1..6 : deserialize(args[i], hdr).tag = "Ok"

FaceTag(i) == deserialize(args[i], hdr).value.data.tag

\* C3: cube assembly of six decodable images of which one resolves to
\* another variant than the others returns a FaceMismatchError; it neither
\* succeeds nor panics.
C3_FaceMismatchError ==
    (AllFacesDecode /\ \E i, j \in 1..6 : FaceTag(i) # FaceTag(j))
    => /\ result.tag = "Err"
       /\ result.kind = "FaceMismatchError"

\* The decoder cannot parse buf: no format is recognised in it (as for a
\* zero-length buffer), its format is not compiled in, or its body is damaged.
Undecodable(buf) ==
    \/ buf.container = "None"
    \/ buf.corrupt
    \/ buf.container = "Hdr" /\ ~hdr

\* C4: deserialize of a zero-length buffer or of bytes the decoder cannot
\* parse returns the decoder's error; it neither panics nor returns a
\* texture.
C4_DecodeError ==
    LET buf == args[1]
    IN  (op = "deserialize" /\ Undecodable(buf))
        => /\ result.tag = "Err"
           /\ result.kind = "DecodeError"
           /\ result.cause = (IF buf.container = "None" \/ (buf.container = "Hdr" /\ ~hdr)
                                THEN "Unsupported" ELSE "Decoding")

C4_Witness ==
    /\ op = "deserialize"
    /\ args = <<EmptyBuffer>>
    /\ pc = "done"
    /\ result = Err("Unsupported")

\* C5: deserialize of an image that decodes, off the HDR path, to a layout
\* other than 1..4 channels of 8 bits returns an UnsupportedFormatError; it
\* does not panic.
C5_UnsupportedFormatError ==
    LET buf == args[1]
    IN  (op = "deserialize" /\ ~Undecodable(buf) /\ format(buf) # "Hdr"
            /\ buf.color \notin Color8)
        => /\ result.tag = "Err"
           /\ result.kind = "UnsupportedFormatError"

\* C6: serialize of a texture of any variant other than RgbaU8 returns an
\* error value; it does not panic and produces no bytes.
C6_SerializeUnsupported ==
    (op = "serialize" /\ args[1].data.tag # "RgbaU8")
    => result.tag = "Err"

\* C7: in every cube that from_bytes returns the six faces have one
\* variant and the same length, the cube's width * height.
C7_CubeInvariant ==
    (op = "from_bytes" /\ result.tag = "Ok")
    => /\ result.value.data.tag \in TextureDataTags
       /\ \A i \in 1..6 :
              Len(result.value.data.faces[i])
                  = result.value.width * result.value.height

\* C8: for six decodable images of one 8-bit variant from_bytes returns
\* that variant with faces 0..5 the decoded right, left, top, bottom, front
\* and back images in that order.
C8_FaceOrder ==
    (AllFacesDecode /\ FaceTag(1) \in U8Tags
        /\ \A i \in 1..6 : FaceTag(i) = FaceTag(1))
    => /\ result.tag = "Ok"
       /\ result.value.data.tag = FaceTag(1)
       /\ Len(result.value.data.faces) = 6
       /\ \A i \in 1..6 :
              /\ result.value.data.faces[i]
                     = deserialize(args[i], hdr).value.data.values
              /\ \A e \in 1..(args[i].width * args[i].height) :
                     LET n == Channels(FaceTag(1))
                         face == result.value.data.faces[i]
                     IN  (IF n = 1 THEN <<face[e]>> ELSE face[e])
                             = [k \in 1..n |-> args[i].bytes[n * (e - 1) + k]]

C8_Witness ==
    /\ op = "from_bytes"
    /\ args = [i \in 1..6 |-> ImageBuffer("Png", FALSE, "Rgba8", 1, 1, "red")]
    /\ result.tag = "Ok"
    /\ result.value.data
           = [tag |-> "RgbaU8", faces |-> [i \in 1..6 |-> << <<255, 0, 0, 255>> >>]]
    /\ result.value.width = 1
    /\ result.value.height = 1

\* C9: the cube's width, height, filters and wrap modes are those of the
\* texture decoded from the right face (wrap_r, which a Texture2D does not
\* have, is the right face's wrap_s), whatever the other five faces are.
C9_FieldsFromRight ==
    (op = "from_bytes" /\ result.tag = "Ok")
    => LET right == deserialize(args[1], hdr).value
       IN  /\ result.value.width = right.width
           /\ result.value.height = right.height
           /\ result.value.width = args[1].width
           /\ result.value.height = args[1].height
           /\ result.value.min_filter = right.min_filter
           /\ result.value.mag_filter = right.mag_filter
           /\ result.value.mip_map_filter = right.mip_map_filter
           /\ result.value.wrap_s = right.wrap_s
           /\ result.value.wrap_t = right.wrap_t
           /\ result.value.wrap_r = right.wrap_s

C9_Witness ==
    /\ op = "from_bytes"
    /\ result.tag = "Ok"
    /\ args[1].width = 1
    /\ \A i \in 2..6 : args[i].width = MaxDim
    /\ result.value.width = 1

\* C10: the default Texture2D is 1x1, one fully transparent black RgbaU8
\* texel, Linear min and mag filters, Some(Linear) mip map filter and
\* Repeat wrapping on both axes.
C10_DefaultTexture2D ==
    op = "default"
    => /\ result.tag = "Ok"
       /\ result.value.width = 1
       /\ result.value.height = 1
       /\ result.value.data.tag = "RgbaU8"
       /\ result.value.data.values = << <<0, 0, 0, 0>> >>
       /\ result.value.min_filter = "Linear"
       /\ result.value.mag_filter = "Linear"
       /\ result.value.mip_map_filter = Some("Linear")
       /\ result.value.wrap_s = "Repeat"
       /\ result.value.wrap_t = "Repeat"

C10_Witness == op = "default" /\ pc = "done" /\ result.tag = "Ok"

\* C11 as stated: the default texture is one opaque black RgbaU8 texel
\* (alpha 255), 1x1, Linear filters, Some(Linear) mip map filter, Repeat
\* wrapping.
C11_OpaqueBlack ==
    op \in {"default", "default3d"}
    => /\ result.tag = "Ok"
       /\ result.value.data = TextureData("RgbaU8", << <<0, 0, 0, 255>> >>)
       /\ result.value.width = 1
       /\ result.value.height = 1
       /\ result.value.min_filter = "Linear"
       /\ result.value.mag_filter = "Linear"
       /\ result.value.mip_map_filter = Some("Linear")
       /\ result.value.wrap_s = "Repeat"
       /\ result.value.wrap_t = "Repeat"

\* C11 amended: the default Texture2D and the default Texture3D are one
\* fully transparent black RgbaU8 texel (all four channels 0), 1x1 (depth 1),
\* Linear filters, Some(Linear) mip map filter, Repeat wrapping on every axis.
C11_TransparentBlack ==
    op \in {"default", "default3d"}
    => /\ result.tag = "Ok"
       /\ result.value.data = TextureData("RgbaU8", << <<0, 0, 0, 0>> >>)
       /\ result.value.width = 1
       /\ result.value.height = 1
       /\ result.value.min_filter = "Linear"
       /\ result.value.mag_filter = "Linear"
       /\ result.value.mip_map_filter = Some("Linear")
       /\ result.value.wrap_s = "Repeat"
       /\ result.value.wrap_t = "Repeat"
       /\ op = "default3d"
              => result.value.depth = 1 /\ result.value.wrap_r = "Repeat"

C11_Witness ==
    /\ op = "default3d"
    /\ pc = "done"
    /\ result.tag = "Ok"
    /\ result.value.data.values[1][4] = 0

\* C12: every texture that a decode returns has the width and height the
\* decoder reported and, in every other field, the Texture2D default:
\* Linear min and mag filters, Some(Linear) mip map filter, Repeat wrapping.
C12_DecodedFields ==
    (op \in {"deserialize", "hdr_image_from_bytes"} /\ result.tag = "Ok")
    => /\ result.value.width = args[1].width
       /\ result.value.height = args[1].height
       /\ result.value.min_filter = "Linear"
       /\ result.value.mag_filter = "Linear"
       /\ result.value.mip_map_filter = Some("Linear")
       /\ result.value.wrap_s = "Repeat"
       /\ result.value.wrap_t = "Repeat"
       /\ DOMAIN result.value
              = {"data", "width", "height", "min_filter", "mag_filter",
                 "mip_map_filter", "wrap_s", "wrap_t"}

C12_Witness ==
    /\ op = "deserialize"
    /\ hdr
    /\ args[1].container = "Hdr"
    /\ args[1].width = MaxDim
    /\ args[1].height = 1
    /\ \E i \in 1..Len(args[1].bytes) : args[1].bytes[i] # 0
    /\ result.tag = "Ok"
    /\ result.value.width = MaxDim

\* The call at hand takes the HDR path: deserialize of a radiance buffer
\* with the hdr feature compiled in, or hdr_image_from_bytes.
HdrPath ==
    \/ op = "deserialize" /\ hdr /\ args[1].container = "Hdr"
    \/ op = "hdr_image_from_bytes"

\* C13: a successful decode on the HDR path yields the RgbF32 variant, one
\* 3-tuple per decoded texel in source order, width * height of them, each
\* the conversion of the texel's four radiance bytes.
C13_HdrVariant ==
    (HdrPath /\ result.tag = "Ok")
    => /\ result.value.data.tag = "RgbF32"
       /\ Len(result.value.data.values) = args[1].width * args[1].height
       /\ \A i \in 1..(args[1].width * args[1].height) :
              LET r == args[1].bytes[4 * (i - 1) + 1]
                  g == args[1].bytes[4 * (i - 1) + 2]
                  b == args[1].bytes[4 * (i - 1) + 3]
                  e == args[1].bytes[4 * (i - 1) + 4]
                  scale == IF e = 0 THEN 0 ELSE Pow2(e - 136)
              IN  result.value.data.values[i] = <<r * scale, g * scale, b * scale>>

C13_Witness ==
    /\ op = "deserialize"
    /\ hdr
    /\ args[1].container = "Hdr"
    /\ result.tag = "Ok"
    /\ result.value.data.tag = "RgbF32"
    /\ Len(result.value.data.values) = 2
    /\ result.value.data.values[1] = <<10, 20, 30>>
    /\ result.value.data.values[2] = <<100, 120, 140>>

\* The first of the six buffers, in the order right, left, top, bottom,
\* front, back, that the decoder cannot parse.
FirstUndecodable ==
    CHOOSE i \in 1..6 :
        /\ Undecodable(args[i])
        /\ \A j \in 1..(i - 1) : ~Undecodable(args[j])

\* C15: when some of the six buffers is undecodable, from_bytes returns the
\* decode error of the first undecodable one in the order right, left, top,
\* bottom, front, back, and no cube, also when earlier faces differ in
\* variant.
C15_FirstDecodeError ==
    (op = "from_bytes" /\ \E i \in 1..6 : Undecodable(args[i]))
    => /\ result.tag = "Err"
       /\ result.kind = "DecodeError"
       /\ result = deserialize(args[FirstUndecodable], hdr)

\* C16: from_bytes succeeds whenever the six buffers decode to one variant,
\* whichever variant deserialize returned, RgbF32 included.
C16_SameTagSucceeds ==
    (AllFacesDecode /\ \A i \in 1..6 : FaceTag(i) = FaceTag(1))
    => /\ result.tag = "Ok"
       /\ result.value.data.tag = FaceTag(1)

====
